---- MODULE Spec2Model ----
(***************************************************************************)
(* State-machine model of pupil_labs.real_time_screen_gaze:                *)
(*   - GazeMapper, MarkerMappedGaze, MarkerMapperResult, ApriltagDetector  *)
(*     and create_apriltag_marker_uid           (gaze_mapper.py)           *)
(*   - Radial_Dist_Camera                       (camera_models.py)         *)
(*   - load_camera_intrinsics                   (cloud_api.py)             *)
(* Python objects are records carrying a "type" field; Python dicts are    *)
(* functions; Python lists and tuples are sequences (0-based indices are   *)
(* read through Idx).  The external libraries (cv2, pupil_apriltags,       *)
(* surface_tracker, requests, the file system) are the environment: their  *)
(* numeric results are kept as terms over their arguments, their choices   *)
(* are drawn with \E.                                                      *)
(***************************************************************************)
EXTENDS Integers, Sequences, FiniteSets, TLC

VARIABLES
    camera,         \* GazeMapper._camera
    detector,       \* GazeMapper._detector
    surfaces,       \* GazeMapper._surfaces: list of references into heap
    recent_result,  \* GazeMapper._recent_result
    heap,           \* every Surface object created so far, by uid
    snapshot,       \* the tuple most recently returned by GazeMapper.surfaces
    lastOp,         \* the public operation that ran last
    lastArgs,       \* its arguments
    ret,            \* what it returned or raised
    calls,          \* external detector / locator invocations it made
    cacheDir,       \* cloud_api: whether the directory cache/ exists
    writable,       \* cloud_api: whether the storage accepts writes
    cacheFiles,     \* cloud_api: content of cache/intrinsics.<serial>.json
    cloudCall,      \* cloud_api: the last load_camera_intrinsics call
    cloudRet,       \* cloud_api: what it returned or raised
    warnings        \* cloud_api: number of logging.warning calls it made

mapperVars == <<camera, detector, surfaces, recent_result, heap, snapshot,
                lastOp, lastArgs, ret, calls>>
cloudVars == <<cacheDir, writable, cacheFiles, cloudCall, cloudRet, warnings>>
vars == <<mapperVars, cloudVars>>

--------------------------------------------------------------------------
(* Bounds of the model *)

\* Surface objects created over a run (add_surface calls)
MaxSurfaces == 2
\* Raw detections the external detector returns for one frame
MaxRaw == 2

--------------------------------------------------------------------------
(* Python values *)

None == [type |-> "NoneType"]

Exception(name) == [type |-> "Exception", exc |-> name]

IsException(v) == v.type = "Exception"

\* Python 0-based indexing of a list
Idx(seq, i) == seq[i + 1]

\* bool(obj) for the objects used here: only None is falsy
Truthy(v) == v # None

Range(seq) == {seq[i] : i \in 1..Len(seq)}

RECURSIVE GCD(_, _)
GCD(a, b) == IF b = 0 THEN a ELSE GCD(b, a % b)

\* a / b on numbers, kept exact as a reduced fraction (b > 0)
Frac(a, b) ==
    LET s == IF a < 0 THEN -1 ELSE 1
        g == GCD(s * a, b)
    IN [num |-> a \div g, den |-> b \div g]

\* 1 - f
OneMinus(f) == Frac(f.den - f.num, f.den)

--------------------------------------------------------------------------
(* camera_models.py: Radial_Dist_Camera.  cv2 is external: its numeric     *)
(* results are kept as terms naming the function and its arguments.        *)

ZeroD == <<0, 0, 0, 0, 0>>

cv2_undistortPoints(pt, K, D) ==
    [fn |-> "undistortPoints", arg |-> pt, K |-> K, D |-> D]

cv2_projectPoints(pt, K, D) ==
    [fn |-> "projectPoints", arg |-> pt, K |-> K, D |-> D]

Radial_Dist_Camera(name, resolution, K, D) ==
    [type |-> "Radial_Dist_Camera", name |-> name, resolution |-> resolution,
     K |-> K, D |-> D]

unprojectPoints(cam, pts_2d, use_distortion) ==
    LET D == IF use_distortion THEN cam.D ELSE ZeroD
    IN [i \in 1..Len(pts_2d) |-> cv2_undistortPoints(pts_2d[i], cam.K, D)]

projectPoints(cam, object_points, use_distortion) ==
    LET D == IF use_distortion THEN cam.D ELSE ZeroD
    IN [i \in 1..Len(object_points) |->
            cv2_projectPoints(object_points[i], cam.K, D)]

undistort_points_on_image_plane(cam, points) ==
    projectPoints(cam, unprojectPoints(cam, points, TRUE), FALSE)

--------------------------------------------------------------------------
(* gaze_mapper.py: marker uids and the ApriltagDetector adapter *)

\* tag families and tag ids occurring in the inputs below
TagFamilies == {"tag36h11"}
TagIds == {0, 1}

\* f"{tag_family}:{tag_id}", tabulated over the families and ids in use
MarkerUidTable ==
    [tag_family \in TagFamilies, tag_id \in TagIds |->
        tag_family \o ":" \o ToString(tag_id)]

create_apriltag_marker_uid(tag_family, tag_id) ==
    MarkerUidTable[tag_family, tag_id]

\* ApriltagDetector.__init__: stores whatever camera model it is given
ApriltagDetector(camera_model) ==
    [type |-> "ApriltagDetector", families |-> "tag36h11",
     camera_model |-> camera_model]

apiltag_marker_uid(apriltag_marker) ==
    create_apriltag_marker_uid(apriltag_marker.tag_family,
                               apriltag_marker.tag_id)

\* {uid_fn(m): m for m in markers}.values(): a dict keeps a key at the
\* position of its first insertion and the value of its last
RECURSIVE DictValues(_)
DictValues(markers) ==
    IF markers = <<>> THEN <<>>
    ELSE LET n    == Len(markers)
             last == markers[n]
             init == SubSeq(markers, 1, n - 1)
             rest == DictValues(init)
             uids == {apiltag_marker_uid(init[i]) : i \in 1..Len(init)}
         IN IF apiltag_marker_uid(last) \in uids
            THEN [i \in 1..Len(rest) |->
                    IF apiltag_marker_uid(rest[i]) = apiltag_marker_uid(last)
                    THEN last ELSE rest[i]]
            ELSE Append(rest, last)

\* Marker.from_vertices(uid, vertices, starting_with, clockwise)
apriltag_marker_to_surface_marker(det, apriltag_marker) ==
    [type |-> "Marker",
     uid |-> apiltag_marker_uid(apriltag_marker),
     vertices |-> undistort_points_on_image_plane(det.camera_model,
                                                  apriltag_marker.corners),
     starting_with |-> "TOP_LEFT",
     clockwise |-> TRUE]

\* The adapter without the uniqueness step
detect_from_gray_keep_all(det, raw) ==
    IF raw # <<>> /\ det.camera_model = None
    THEN Exception("AttributeError")
    ELSE [type |-> "list",
          items |-> [i \in 1..Len(raw) |->
                        apriltag_marker_to_surface_marker(det, raw[i])]]

\* ApriltagDetector.detect_from_gray; raw is what the external detector
\* returns for the image.  Undistorting through an absent camera model
\* raises AttributeError.
detect_from_gray(det, raw) ==
    LET markers == DictValues(raw)
    IN IF markers # <<>> /\ det.camera_model = None
       THEN Exception("AttributeError")
       ELSE [type |-> "list",
             items |-> [i \in 1..Len(markers) |->
                          apriltag_marker_to_surface_marker(det, markers[i])]]

\* ApriltagDetector.detect_from_image: grayscale conversion, then detection
detect_from_image(det, raw) == detect_from_gray(det, raw)

--------------------------------------------------------------------------
(* Inputs the operations are driven with *)

K0 == <<<<8, 0, 4>>, <<0, 8, 4>>, <<0, 0, 1>>>>
D0 == <<0, 0, 0, 0, 0>>
KA == <<<<9, 0, 5>>, <<0, 9, 5>>, <<0, 0, 1>>>>
DA == <<1, 0, 0, 0, 0>>

\* the calibration mapping handed to GazeMapper(...)
Calibrations ==
    {[scene_camera_matrix |-> <<K0>>, scene_distortion_coefficients |-> <<D0>>]}

\* values assigned to GazeMapper.camera
CameraArgs == {None, Radial_Dist_Camera("Scene", <<1, 1>>, KA, DA)}

Quad1 == <<<<0, 0>>, <<2, 0>>, <<2, 2>>, <<0, 2>>>>
Quad2 == <<<<4, 4>>, <<6, 4>>, <<6, 6>>, <<4, 6>>>>

Detection(tag_id, corners) ==
    [tag_family |-> "tag36h11", tag_id |-> tag_id, corners |-> corners]

RawDetections ==
    {Detection(0, Quad1), Detection(0, Quad2), Detection(1, Quad1),
     Detection(1, Quad2)}

\* what the external detector may return for a frame's image
Frames == UNION {[1..n -> RawDetections] : n \in 0..MaxRaw}

\* the frames a mapper with registered surfaces is driven with: no marker,
\* one marker, two markers
SceneFrames ==
    {<<>>, <<Detection(0, Quad1)>>, <<Detection(1, Quad2), Detection(0, Quad1)>>}

GazeData(x, y) ==
    [type |-> "GazeData", x |-> x, y |-> y, worn |-> TRUE,
     timestamp_unix_seconds |-> 1]

GazeArgs ==
    {GazeData(3, 4),
     [type |-> "list", items |-> <<GazeData(3, 4), GazeData(5, 6)>>]}

\* marker polygons in surface pixels, y down; WholeSurface lists the corners
\* of a 200 x 100 surface as bottom-left, bottom-right, top-right, top-left,
\* TopLeftFirst those of a 400 x 200 surface starting at the top left
WholeSurface == <<<<0, 100>>, <<200, 100>>, <<200, 0>>, <<0, 0>>>>
SmallPolygon == <<<<150, 50>>, <<200, 50>>, <<200, 25>>, <<150, 25>>>>
TopLeftFirst == <<<<0, 0>>, <<400, 0>>, <<400, 200>>, <<0, 200>>>>

\* the (markers_verts, surface_size) pairs add_surface is called with
AddSurfaceArgs ==
    {<<(0 :> WholeSurface) @@ (1 :> SmallPolygon), <<200, 100>>>>,
     <<(1 :> TopLeftFirst), <<400, 200>>>>}

\* surface-normalized points a located surface may send the gaze point to
NormPoints == {<<Frac(1, 1), Frac(0, 1)>>, <<Frac(-1, 10), Frac(1, 2)>>}

--------------------------------------------------------------------------
(* gaze_mapper.py: result types *)

\* MarkerMappedGaze.from_norm_pos
from_norm_pos(aoi_id, norm_pos, base_datum) ==
    LET x == norm_pos[1]
        y == norm_pos[2]
        on_surface == /\ 0 <= x.num /\ x.num <= x.den
                      /\ 0 <= y.num /\ y.num <= y.den
    IN [type |-> "MarkerMappedGaze", aoi_id |-> aoi_id, x |-> x, y |-> y,
        is_on_aoi |-> on_surface, base_datum |-> base_datum]

MarkerMapperResult(markers, located_aois, mapped_gaze) ==
    [type |-> "MarkerMapperResult", markers |-> markers,
     located_aois |-> located_aois, mapped_gaze |-> mapped_gaze]

PyFloat(v) == [type |-> "float", v |-> v]
PyBool(v) == [type |-> "bool", v |-> v]

\* iterating a GazeData (a NamedTuple) yields its fields in order
GazeIter(gaze) ==
    <<PyFloat(gaze.x), PyFloat(gaze.y), PyBool(gaze.worn),
      PyFloat(gaze.timestamp_unix_seconds)>>

\* zip(a, b): pairs up to the shorter length
Zip(a, b) ==
    LET n == IF Len(a) < Len(b) THEN Len(a) ELSE Len(b)
    IN [i \in 1..n |-> <<a[i], b[i]>>]

EmptyDict == [k \in {} |-> None]

\* d[k] = v
DictSet(d, k, v) == [x \in DOMAIN d \cup {k} |-> IF x = k THEN v ELSE d[x]]

--------------------------------------------------------------------------
(* surface_tracker (external): SurfaceTracker.locate_surface *)

SurfaceLocation(surface_uid, image) ==
    [type |-> "SurfaceLocation", surface_uid |-> surface_uid,
     gaze_image |-> image]

\* what locate_surface may return for a surface and the frame's markers:
\* absent when no registered marker is visible, else absent or a location
\* of that surface, whose transform sends the frame's gaze point anywhere
LocateOutcomes(surface, markers) ==
    LET visible == {markers[i].uid : i \in 1..Len(markers)}
    IN IF visible \cap DOMAIN surface.registered_markers = {}
       THEN {None}
       ELSE {None} \cup {SurfaceLocation(surface.uid, n) : n \in NormPoints}

\* SurfaceLocation._map_from_image_to_surface(points).tolist()
map_from_image_to_surface(location, points) ==
    [i \in 1..Len(points) |-> location.gaze_image]

--------------------------------------------------------------------------
(* gaze_mapper.py: GazeMapper *)

\* _CoreMarker.__init__
CoreMarker(uid, coordinate_space, vertices_by_corner_id) ==
    [type |-> "_CoreMarker", uid |-> uid,
     coordinate_space |-> coordinate_space,
     vertices_by_corner_id |-> vertices_by_corner_id]

\* add_surface without the flip of the vertical axis
verts_norm_unflipped(marker_verts, surface_size) ==
    [i \in 1..Len(marker_verts) |->
        <<Frac(marker_verts[i][1], surface_size[1]),
          Frac(marker_verts[i][2], surface_size[2])>>]

\* add_surface: verts_norm = np.array(marker_verts) / surface_size, then
\* verts_norm[:,1] = 1 - verts_norm[:,1]
verts_norm_of(marker_verts, surface_size) ==
    [i \in 1..Len(marker_verts) |->
        <<Frac(marker_verts[i][1], surface_size[1]),
          OneMinus(Frac(marker_verts[i][2], surface_size[2]))>>]

\* add_surface: the corner ids given to the four normalized vertices
corners_of(verts_norm) ==
    [TOP_LEFT     |-> Idx(verts_norm, 3),
     BOTTOM_LEFT  |-> Idx(verts_norm, 0),
     TOP_RIGHT    |-> Idx(verts_norm, 2),
     BOTTOM_RIGHT |-> Idx(verts_norm, 1)]

\* add_surface: the _Surface_V2 built from the marker layout; _add_marker
\* registers each marker under its uid
new_surface(uid, markers_verts, surface_size, name) ==
    LET marker(marker_id) ==
            CoreMarker(create_apriltag_marker_uid("tag36h11", marker_id),
                       "SURFACE_UNDISTORTED",
                       corners_of(verts_norm_of(markers_verts[marker_id],
                                                surface_size)))
        uids == {create_apriltag_marker_uid("tag36h11", marker_id) :
                    marker_id \in DOMAIN markers_verts}
    IN [type |-> "Surface", uid |-> uid, name |-> name,
        registered_markers |->
            [u \in uids |->
                marker(CHOOSE marker_id \in DOMAIN markers_verts :
                    create_apriltag_marker_uid("tag36h11", marker_id) = u)]]

\* process_frame checking the detector alone
configured_detector_only(cam, det) == Truthy(det)

\* process_frame: all((self._camera, self._detector))
configured(cam, det) == Truthy(cam) /\ Truthy(det)

\* process_frame with the unlocated surfaces left out of mapped_gaze
RECURSIVE mapped_gaze_located_only(_, _, _, _)
mapped_gaze_located_only(order, surface_locations, gaze, gaze_undistorted) ==
    IF order = <<>> THEN EmptyDict
    ELSE LET n == Len(order)
             surface_uid == order[n]
             location == surface_locations[surface_uid]
             prev == mapped_gaze_located_only(SubSeq(order, 1, n - 1),
                        surface_locations, gaze, gaze_undistorted)
         IN IF location = None
            THEN prev
            ELSE LET gaze_mapped_norm ==
                        map_from_image_to_surface(location, gaze_undistorted)
                     pairs == Zip(GazeIter(gaze), gaze_mapped_norm)
                 IN DictSet(prev, location.surface_uid,
                        [i \in 1..Len(pairs) |->
                            from_norm_pos(surface_uid, pairs[i][2],
                                          pairs[i][1])])

\* process_frame: the mapped_gaze dict, filled in the order of
\* surface_locations.items(); order is the list of its keys
RECURSIVE mapped_gaze_of(_, _, _, _)
mapped_gaze_of(order, surface_locations, gaze, gaze_undistorted) ==
    IF order = <<>> THEN EmptyDict
    ELSE LET n == Len(order)
             surface_uid == order[n]
             location == surface_locations[surface_uid]
             prev == mapped_gaze_of(SubSeq(order, 1, n - 1), surface_locations,
                                    gaze, gaze_undistorted)
         IN IF location = None
            THEN DictSet(prev, surface_uid, <<>>)
            ELSE LET gaze_mapped_norm ==
                        map_from_image_to_surface(location, gaze_undistorted)
                     pairs == Zip(GazeIter(gaze), gaze_mapped_norm)
                 IN DictSet(prev, location.surface_uid,
                        [i \in 1..Len(pairs) |->
                            from_norm_pos(surface_uid, pairs[i][2],
                                          pairs[i][1])])

\* process_frame: what it returns or raises, and the external calls made.
\* frame is what the external detector finds in the frame's image, locs
\* what the external locator answers for each registered surface.
process_frame(cam, det, surfs, frame, gaze, locs) ==
    IF ~configured(cam, det)
    THEN [ret |-> None, detect |-> 0, locate |-> 0]
    ELSE
    LET markers == detect_from_image(det, frame)
    IN IF IsException(markers)
       THEN [ret |-> markers, detect |-> 1, locate |-> 0]
       ELSE
       LET surface_locations ==
               [u \in {surfs[i].uid : i \in 1..Len(surfs)} |-> locs[u]]
           order == [i \in 1..Len(surfs) |-> surfs[i].uid]
       IN IF gaze.type # "GazeData" \/ cam = None
          THEN [ret |-> Exception("AttributeError"),
                detect |-> 1, locate |-> Len(surfs)]
          ELSE
          LET gaze_undistorted ==
                  undistort_points_on_image_plane(cam, <<<<gaze.x, gaze.y>>>>)
              mapped_gaze ==
                  mapped_gaze_of(order, surface_locations, gaze,
                                 gaze_undistorted)
          IN [ret |-> MarkerMapperResult(markers.items, surface_locations,
                                         mapped_gaze),
              detect |-> 1, locate |-> Len(surfs)]

\* the camera setter keeping the detector it had
camera_setter_stale(old_detector, c) ==
    [camera |-> c, detector |-> old_detector]

\* GazeMapper.camera setter: the camera and the detector built for it
camera_setter(old_detector, c) ==
    [camera |-> c, detector |-> ApriltagDetector(c)]

\* clear_surfaces dropping only the most recent surface
cleared_but_last(old_surfaces) ==
    IF old_surfaces = <<>> THEN <<>>
    ELSE SubSeq(old_surfaces, 1, Len(old_surfaces) - 1)

\* clear_surfaces: self._surfaces = []
cleared(old_surfaces) == <<>>

--------------------------------------------------------------------------
(* State machine of one GazeMapper *)

NoArgs == [op |-> "none"]

\* GazeMapper.__init__ with the default surfaces=()
InitMapper ==
    \E calibration \in Calibrations :
        LET cam == Radial_Dist_Camera("Scene", <<1, 1>>,
                       Idx(calibration.scene_camera_matrix, 0),
                       Idx(calibration.scene_distortion_coefficients, 0))
            set == camera_setter(None, cam)
        IN /\ camera = set.camera
           /\ detector = set.detector
           /\ surfaces = <<>>
           /\ recent_result = None
           /\ heap = <<>>
           /\ snapshot = None
           /\ lastOp = "init"
           /\ lastArgs = NoArgs
           /\ ret = None
           /\ calls = [detect |-> 0, locate |-> 0]

\* mapper.camera = c
SetCamera ==
    \E c \in CameraArgs :
        LET set == camera_setter(detector, c)
        IN /\ camera' = set.camera
           /\ detector' = set.detector
           /\ lastOp' = "set_camera"
           /\ lastArgs' = [op |-> "set_camera", camera |-> c]
           /\ ret' = None
           /\ calls' = [detect |-> 0, locate |-> 0]
           /\ UNCHANGED <<surfaces, recent_result, heap, snapshot>>

\* mapper.add_surface(markers_verts, surface_size); uuid4 gives a fresh uid
AddSurface ==
    /\ Len(heap) < MaxSurfaces
    /\ \E args \in AddSurfaceArgs :
        LET markers_verts == args[1]
            surface_size == args[2]
            uid == Len(heap) + 1
            surface == new_surface(uid, markers_verts, surface_size, "Screen")
        IN /\ heap' = Append(heap, surface)
           /\ surfaces' = Append(surfaces, uid)
           /\ lastOp' = "add_surface"
           /\ lastArgs' = [op |-> "add_surface",
                           markers_verts |-> markers_verts,
                           surface_size |-> surface_size]
           /\ ret' = [type |-> "ref", uid |-> uid]
           /\ calls' = [detect |-> 0, locate |-> 0]
           /\ UNCHANGED <<camera, detector, recent_result, snapshot>>

\* mapper.clear_surfaces()
ClearSurfaces ==
    /\ surfaces' = cleared(surfaces)
    /\ lastOp' = "clear_surfaces"
    /\ lastArgs' = NoArgs
    /\ ret' = None
    /\ calls' = [detect |-> 0, locate |-> 0]
    /\ UNCHANGED <<camera, detector, recent_result, heap, snapshot>>

\* mapper.surfaces
GetSurfaces ==
    /\ snapshot' = [type |-> "tuple", items |-> surfaces]
    /\ lastOp' = "surfaces"
    /\ lastArgs' = NoArgs
    /\ ret' = snapshot'
    /\ calls' = [detect |-> 0, locate |-> 0]
    /\ UNCHANGED <<camera, detector, surfaces, recent_result, heap>>

\* every answer the external locator may give for the surfaces in order
RECURSIVE LocateChoices(_, _)
LocateChoices(surfs, markers) ==
    IF surfs = <<>> THEN {EmptyDict}
    ELSE LET n == Len(surfs)
             outcomes == LocateOutcomes(surfs[n], markers)
         IN UNION {{DictSet(d, surfs[n].uid, o) : o \in outcomes} :
                      d \in LocateChoices(SubSeq(surfs, 1, n - 1), markers)}

\* mapper.process_frame(frame, gaze), the frame drawn from frames
ProcessFrame(frames) ==
    \E frame \in frames, gaze \in GazeArgs :
        LET surfs == [i \in 1..Len(surfaces) |-> heap[surfaces[i]]]
            found == detect_from_image(detector, frame)
            seen == IF IsException(found) THEN <<>> ELSE found.items
        IN \E locs \in LocateChoices(surfs, seen) :
            /\ LET out == process_frame(camera, detector, surfs, frame, gaze, locs)
               IN /\ ret' = out.ret
                  /\ calls' = [detect |-> out.detect, locate |-> out.locate]
            /\ lastOp' = "process_frame"
            /\ lastArgs' = [op |-> "process_frame", frame |-> frame,
                            gaze |-> gaze]
            /\ UNCHANGED <<camera, detector, surfaces, recent_result, heap,
                           snapshot>>

--------------------------------------------------------------------------
(* cloud_api.py: load_camera_intrinsics over a file system and a network *)

Serials == {"s1", "s2"}

Absent == [type |-> "absent"]
Corrupt == [type |-> "corrupt"]
JsonFile(value) == [type |-> "json", value |-> value]

\* resp.json()["result"] of the calibration endpoint
CloudIntrinsics(serial) ==
    [type |-> "CloudIntrinsics", camera_matrix |-> K0, dist_coefs |-> <<D0>>,
     serial_number |-> serial, version |-> "1"]

\* what requests.get does for a serial number
NetOutcomes(serial) ==
    {[kind |-> "response", ok |-> TRUE, result |-> CloudIntrinsics(serial)],
     [kind |-> "response", ok |-> FALSE, result |-> None],
     [kind |-> "ConnectionError", ok |-> FALSE, result |-> None]}

\* load_camera_intrinsics(serial): dir, rw and files are the storage before
\* the call, net what requests.get does, dump_ok whether json.dump completes.
\* Returns the value returned or raised and the storage after the call.
load_camera_intrinsics(dir, rw, files, serial, net, dump_ok) ==
    IF ~dir /\ ~rw
    THEN \* line 22: mkdir raises OSError outside any try
         [ret |-> Exception("OSError"), dir |-> dir, files |-> files,
          warned |-> 0]
    ELSE
    LET file == IF dir THEN files[serial] ELSE Absent
    IN IF file.type = "json"
       THEN \* lines 25-26: cache hit
            [ret |-> file.value, dir |-> TRUE, files |-> files, warned |-> 0]
       ELSE IF file.type = "corrupt"
       THEN \* line 26: json.load raises, not a FileNotFoundError
            [ret |-> Exception("JSONDecodeError"), dir |-> TRUE,
             files |-> files, warned |-> 0]
       ELSE IF net.kind # "response"
       THEN \* line 29
            [ret |-> Exception("ConnectionError"), dir |-> TRUE,
             files |-> files, warned |-> 0]
       ELSE IF ~net.ok
       THEN \* line 30: raise_for_status
            [ret |-> Exception("HTTPError"), dir |-> TRUE, files |-> files,
             warned |-> 0]
       ELSE IF ~rw
       THEN \* lines 33, 35-36: open(..., "w") raises OSError, caught
            [ret |-> net.result, dir |-> TRUE, files |-> files, warned |-> 1]
       ELSE IF ~dump_ok
       THEN \* lines 34-36: the file is truncated, json.dump raises OSError
            [ret |-> net.result, dir |-> TRUE,
             files |-> [files EXCEPT ![serial] = Corrupt], warned |-> 1]
       ELSE [ret |-> net.result, dir |-> TRUE,
             files |-> [files EXCEPT ![serial] = JsonFile(net.result)],
             warned |-> 0]

NoCall == [serial |-> "", miss |-> FALSE, ok |-> FALSE, result |-> None]

InitCloud ==
    /\ cacheDir = FALSE
    /\ writable = TRUE
    /\ cacheFiles = [s \in Serials |-> Absent]
    /\ cloudCall = NoCall
    /\ cloudRet = None
    /\ warnings = 0

\* a call of load_camera_intrinsics
LoadCameraIntrinsics ==
    \E serial \in Serials, dump_ok \in BOOLEAN :
        \E net \in NetOutcomes(serial) :
            LET out == load_camera_intrinsics(cacheDir, writable, cacheFiles,
                                              serial, net, dump_ok)
            IN /\ cloudRet' = out.ret
               /\ cacheDir' = out.dir
               /\ cacheFiles' = out.files
               /\ warnings' = out.warned
               /\ cloudCall' = [serial |-> serial,
                                miss |-> ~cacheDir \/ cacheFiles[serial] = Absent,
                                ok |-> net.ok, result |-> net.result]
               /\ UNCHANGED writable

\* the environment: the storage is remounted read-only or read-write
Remount ==
    /\ writable' = ~writable
    /\ UNCHANGED <<cacheDir, cacheFiles, cloudCall, cloudRet, warnings>>

\* the environment: the cache directory is removed
RemoveCache ==
    /\ writable
    /\ cacheDir
    /\ cacheDir' = FALSE
    /\ cacheFiles' = [s \in Serials |-> Absent]
    /\ UNCHANGED <<writable, cloudCall, cloudRet, warnings>>

--------------------------------------------------------------------------
(* Specifications *)

Init == InitMapper /\ InitCloud

Next ==
    \/ SetCamera /\ UNCHANGED cloudVars
    \/ AddSurface /\ UNCHANGED cloudVars
    \/ ClearSurfaces /\ UNCHANGED cloudVars
    \/ GetSurfaces /\ UNCHANGED cloudVars
    \/ ProcessFrame(SceneFrames) /\ UNCHANGED cloudVars

\* a GazeMapper driven through its public operations
Spec == Init /\ [][Next]_vars

NextDetect ==
    \/ SetCamera /\ UNCHANGED cloudVars
    \/ ProcessFrame(Frames) /\ UNCHANGED cloudVars

\* the marker adapter of a GazeMapper driven with every detector output
SpecDetect == Init /\ [][NextDetect]_vars

NextCloud ==
    \/ LoadCameraIntrinsics /\ UNCHANGED mapperVars
    \/ Remount /\ UNCHANGED mapperVars
    \/ RemoveCache /\ UNCHANGED mapperVars

\* load_camera_intrinsics called over a changing storage and network
SpecCloud == Init /\ [][NextCloud]_vars

--------------------------------------------------------------------------
(* Properties *)

IsResult(v) == v.type = "MarkerMapperResult"

\* C1: in every reachable state the marker adapter is bound to the camera
\* that is active, and the markers a process_frame call returns were
\* undistorted with that camera's K and D, never an earlier camera's.
AdapterBoundToActiveCamera ==
    /\ detector.type = "ApriltagDetector"
    /\ detector.camera_model = camera
    /\ (lastOp = "process_frame" /\ IsResult(ret)) =>
          \A i \in 1..Len(ret.markers) :
              \A j \in 1..Len(ret.markers[i].vertices) :
                  LET v == ret.markers[i].vertices[j]
                  IN /\ v.K = camera.K
                     /\ v.arg.K = camera.K
                     /\ v.arg.D = camera.D

\* C1 witness: markers detected after the camera was replaced by the setter
AdapterUsedAfterSetCamera ==
    /\ lastOp = "process_frame"
    /\ IsResult(ret)
    /\ ret.markers # <<>>
    /\ camera # None
    /\ camera.K = KA

\* C2: a process_frame call that returns a result gives every registered
\* surface an entry in located_aois and in mapped_gaze, under its uid, and
\* the mapped_gaze entry of an unlocated surface is the empty list.
ResultCoversEverySurface ==
    (lastOp = "process_frame" /\ IsResult(ret)) =>
        /\ DOMAIN ret.located_aois = {heap[u].uid : u \in Range(surfaces)}
        /\ DOMAIN ret.mapped_gaze = {heap[u].uid : u \in Range(surfaces)}
        /\ \A u \in Range(surfaces) :
              ret.located_aois[heap[u].uid] = None =>
                  ret.mapped_gaze[heap[u].uid] = <<>>

\* C2 witness: a result with one surface located and another one not
ResultWithUnlocatedSurface ==
    /\ lastOp = "process_frame"
    /\ IsResult(ret)
    /\ \E u, v \in Range(surfaces) :
          /\ ret.located_aois[u] = None
          /\ ret.located_aois[v] # None

\* the gaze samples a process_frame call was given
SamplesOf(gaze) == IF gaze.type = "list" THEN gaze.items ELSE <<gaze>>

\* C3: in the result of a process_frame call every located surface has
\* exactly one mapped point per gaze sample supplied, each with the gaze
\* sample it was computed from as its base_datum, all of them computed with
\* the frame's one detection pass.
OneMappedPointPerGazeSample ==
    (lastOp = "process_frame" /\ IsResult(ret)) =>
        /\ calls.detect = 1
        /\ \A u \in DOMAIN ret.located_aois :
              ret.located_aois[u] # None =>
                  LET samples == SamplesOf(lastArgs.gaze)
                      mapped == ret.mapped_gaze[u]
                  IN /\ Len(mapped) = Len(samples)
                     /\ \A i \in 1..Len(mapped) :
                           mapped[i].base_datum = samples[i]

\* C4: a process_frame call made while the camera or the adapter is unset
\* returns None, calls neither the detector nor the locator and leaves the
\* camera, the adapter and the surfaces as they were.
UnconfiguredProcessFrameIsNoop ==
    [][(lastOp' = "process_frame" /\ (camera = None \/ detector = None)) =>
          /\ ret' = None
          /\ calls'.detect = 0
          /\ calls'.locate = 0
          /\ UNCHANGED <<camera, detector, surfaces, heap, recent_result,
                         snapshot>>]_vars

\* C4 witness: process_frame ran on a mapper whose camera is unset
ProcessFrameRanUnconfigured ==
    /\ lastOp = "process_frame"
    /\ camera = None
    /\ lastArgs.frame # <<>>
    /\ ret = None

\* C5: assigning an absent camera raises at once, and no adapter whose
\* camera model is absent ever exists.
AdapterConstructionFailsFast ==
    /\ (lastOp = "set_camera" /\ lastArgs.camera = None) => IsException(ret)
    /\ detector.type = "ApriltagDetector" => detector.camera_model # None

\* C6: clear_surfaces empties the surface list and changes nothing else:
\* the surface objects created before, the snapshot returned before and the
\* camera / adapter pair keep their values.
ClearSurfacesOnlyEmpties ==
    [][lastOp' = "clear_surfaces" =>
          /\ surfaces' = <<>>
          /\ heap' = heap
          /\ snapshot' = snapshot
          /\ UNCHANGED <<camera, detector, recent_result>>]_vars

\* C6 witness: two surfaces were added, a snapshot taken, then all cleared
ClearedAfterSnapshot ==
    /\ lastOp = "clear_surfaces"
    /\ surfaces = <<>>
    /\ Len(heap) >= 2
    /\ snapshot # None
    /\ Len(snapshot.items) >= 2
    /\ \A i \in 1..Len(snapshot.items) :
          DOMAIN heap[snapshot.items[i]].registered_markers # {}

\* the uid of a raw detection, spelled out
RawUid(raw) == raw.tag_family \o ":" \o ToString(raw.tag_id)

\* C7: the markers a frame's detection returns hold exactly one marker for
\* each distinct family:id among the raw detections, and no other uid.
OneMarkerPerDistinctUid ==
    (lastOp = "process_frame" /\ IsResult(ret)) =>
        LET raw == lastArgs.frame
            uids == {RawUid(raw[i]) : i \in 1..Len(raw)}
        IN /\ \A u \in uids :
                 Cardinality({i \in 1..Len(ret.markers) :
                                 ret.markers[i].uid = u}) = 1
           /\ \A i \in 1..Len(ret.markers) : ret.markers[i].uid \in uids

\* C7 witness: two raw detections with one uid and different corners, and
\* a third uid beside them or not, gave one marker for that uid
DuplicateUidDetected ==
    /\ lastOp = "process_frame"
    /\ IsResult(ret)
    /\ \E i, j \in 1..Len(lastArgs.frame) :
          /\ i # j
          /\ RawUid(lastArgs.frame[i]) = RawUid(lastArgs.frame[j])
          /\ lastArgs.frame[i].corners # lastArgs.frame[j].corners
    /\ Len(ret.markers) < Len(lastArgs.frame)

\* v is the number a / b
FracIs(v, a, b) == v.num * b = a * v.den

\* C8: add_surface registers each marker with its pixel vertices divided by
\* the surface size and the vertical axis flipped, vertex 3 as TOP_LEFT, 0
\* as BOTTOM_LEFT, 2 as TOP_RIGHT and 1 as BOTTOM_RIGHT; the polygon on the
\* corners of a 200 x 100 surface gets BOTTOM_LEFT (0,0) and TOP_LEFT (0,1).
AddSurfaceNormalizesAndFlips ==
    lastOp = "add_surface" =>
        LET surface == heap[ret.uid]
            verts == lastArgs.markers_verts
            w == lastArgs.surface_size[1]
            h == lastArgs.surface_size[2]
            At(id, corner) ==
                surface.registered_markers[RawUid([tag_family |-> "tag36h11",
                    tag_id |-> id])].vertices_by_corner_id[corner]
            Placed(id, k, corner) ==
                /\ FracIs(At(id, corner)[1], verts[id][k + 1][1], w)
                /\ FracIs(At(id, corner)[2], h - verts[id][k + 1][2], h)
        IN /\ \A id \in DOMAIN verts :
                 /\ Placed(id, 3, "TOP_LEFT")
                 /\ Placed(id, 0, "BOTTOM_LEFT")
                 /\ Placed(id, 2, "TOP_RIGHT")
                 /\ Placed(id, 1, "BOTTOM_RIGHT")
           /\ (0 \in DOMAIN verts /\ verts[0] = WholeSurface
                  /\ lastArgs.surface_size = <<200, 100>>) =>
                 /\ At(0, "BOTTOM_LEFT") = <<Frac(0, 1), Frac(0, 1)>>
                 /\ At(0, "TOP_LEFT") = <<Frac(0, 1), Frac(1, 1)>>

\* C8 witness: the whole-surface polygon was registered on a 200 x 100
\* surface
WholeSurfaceRegistered ==
    /\ lastOp = "add_surface"
    /\ lastArgs.surface_size = <<200, 100>>
    /\ 0 \in DOMAIN lastArgs.markers_verts
    /\ lastArgs.markers_verts[0] = WholeSurface
    /\ "tag36h11:0" \in DOMAIN heap[ret.uid].registered_markers

\* C9: a call that misses the cache while the network fetch would succeed
\* returns the fetched intrinsics, whatever step of the cache storage fails.
CacheFailureNeverFailsRetrieval ==
    (cloudCall.miss /\ cloudCall.ok) => cloudRet = cloudCall.result

\* C10: after a process_frame call that returned a result, the mapper's
\* retained last result is that result.
RetainsLastResult ==
    (lastOp = "process_frame" /\ IsResult(ret)) => recent_result = ret

====
